---- MODULE Spec2Model ----
(***************************************************************************)
(* bunyan-view: the per-line pipeline of write_bunyan_output (src/lib.rs)  *)
(* and the Long-format renderer write_long_format                          *)
(* (src/long_format_logger.rs).                                            *)
(*                                                                         *)
(* Text is a sequence of one-character strings.  A JSON value is a tagged  *)
(* record, a JSON object an ordered sequence of [k, v] entries.  A writer  *)
(* is the sequence of fragments written to it; the fragment "nl" is a line *)
(* break, so the lines of a writer are the runs between "nl" fragments.    *)
(***************************************************************************)
EXTENDS Integers, Sequences, FiniteSets, TLC

\* ------------------------------------------------------------------------
\* Bounds of the model
\* ------------------------------------------------------------------------
\* longest input stream fed to write_bunyan_output
MaxLines == 2
\* most entries in the `other` map of a rendered record
MaxOther == 2

\* ------------------------------------------------------------------------
\* Program constants
\* ------------------------------------------------------------------------
BASE_INDENT_SIZE == 4
LONG_LINE_SIZE == 50
U16_MAX == 65535
REQUIRED_FIELDS == <<"v", "level", "hostname", "pid", "time", "msg">>
REQ_EXTRA == {"method", "url", "httpVersion", "body", "header", "headers", "trailers"}
CLIENT_REQ_EXTRA == {"method", "url", "httpVersion", "body", "header", "address", "port"}
RES_EXTRA == {"statusCode", "header", "headers", "trailer"}
CLIENT_RES_EXTRA == {"statusCode", "body", "header", "headers", "trailer"}
ERR_EXTRA == {"message", "name", "stack"}

\* ------------------------------------------------------------------------
\* JSON values, Option, ordered maps
\* ------------------------------------------------------------------------
Null == [t |-> "null"]
Bool(b) == [t |-> "bool", b |-> b]
\* an integer number, and a number with a fractional part (n + 0.5)
Num(n) == [t |-> "num", n |-> n, int |-> TRUE]
Float(n) == [t |-> "num", n |-> n, int |-> FALSE]
Str(s) == [t |-> "str", s |-> s]
Arr(a) == [t |-> "arr", a |-> a]
Obj(m) == [t |-> "obj", m |-> m]

None == [some |-> FALSE]
Some(x) == [some |-> TRUE, v |-> x]

Entry(k, v) == [k |-> k, v |-> v]

\* Map::get
MapGet(map, key) ==
  IF \E i \in 1..Len(map) : map[i].k = key
  THEN Some(map[CHOOSE i \in 1..Len(map) : map[i].k = key].v)
  ELSE None

\* Map::contains_key
MapHas(map, key) == \E i \in 1..Len(map) : map[i].k = key

is_string(v) == v.t = "str"
is_number(v) == v.t = "num"
is_boolean(v) == v.t = "bool"
is_null(v) == v.t = "null"
is_array(v) == v.t = "arr"
is_object(v) == v.t = "obj"

\* ------------------------------------------------------------------------
\* Text helpers (std::str)
\* ------------------------------------------------------------------------
\* str::contains for a one-character pattern
Contains(s, c) == \E i \in 1..Len(s) : s[i] = c

\* str::starts_with
StartsWith(s, p) == Len(s) >= Len(p) /\ SubSeq(s, 1, Len(p)) = p

IsWhitespace(c) == c \in {" ", "\n", "\t"}

\* the bytes of one character in UTF-8: "U+00E9" stands for the two-byte
\* character of that code point, every other character here is ASCII
Utf8Width(c) == IF c = "U+00E9" THEN 2 ELSE 1

RECURSIVE ByteLen(_)
\* str::len: the length of the text in bytes
ByteLen(s) == IF s = <<>> THEN 0 ELSE Utf8Width(Head(s)) + ByteLen(Tail(s))

\* str::trim().is_empty()
TrimIsEmpty(s) == \A i \in 1..Len(s) : IsWhitespace(s[i])

RECURSIVE Lines(_)
\* str::lines: split at line breaks, no final empty line
Lines(s) ==
  IF s = <<>> THEN <<>>
  ELSE IF Contains(s, "\n")
       THEN LET i == CHOOSE j \in 1..Len(s) :
                       s[j] = "\n" /\ \A h \in 1..(j - 1) : s[h] # "\n"
            IN <<SubSeq(s, 1, i - 1)>> \o Lines(SubSeq(s, i + 1, Len(s)))
       ELSE <<s>>

\* the text of n copies of the character c
Repeated(c, n) == [i \in 1..n |-> c]

RECURSIVE Flatten(_)
Flatten(ss) == IF ss = <<>> THEN <<>> ELSE Head(ss) \o Flatten(Tail(ss))

\* ------------------------------------------------------------------------
\* Writer fragments
\* ------------------------------------------------------------------------
\* sec: the routine that wrote the fragment; f: the kind of fragment;
\* key: the key or literal printed; val: the value printed
Tok(sec, f, key, val) == [sec |-> sec, f |-> f, key |-> key, val |-> val]
\* writeln!: the line break
NL(sec) == Tok(sec, "nl", <<>>, Null)
\* a literal piece of text
Lit(sec, text) == Tok(sec, "lit", <<text>>, Null)
\* string_or_value!: a string verbatim, null as "null", else compact JSON
string_or_value(sec, v) ==
  IF is_string(v) THEN Tok(sec, "raw", <<>>, v) ELSE Tok(sec, "json", <<>>, v)
\* get_or_default!
get_or_default(sec, map, key, default) ==
  IF MapGet(map, key).some
  THEN string_or_value(sec, MapGet(map, key).v)
  ELSE Lit(sec, default)

\* the lines string_or_value!(v).lines() yields: compact JSON is one line
SovLines(v) == IF is_string(v) THEN Lines(v.s) ELSE <<<<"j">>>>

RECURSIVE JsonHasSpace(_)
\* whether the compact JSON text of v contains a space
JsonHasSpace(v) ==
  CASE is_string(v) -> Contains(v.s, " ")
    [] is_array(v) -> \E i \in 1..Len(v.a) : JsonHasSpace(v.a[i])
    [] is_object(v) -> \E i \in 1..Len(v.m) : JsonHasSpace(v.m[i].v)
    [] OTHER -> FALSE

\* ------------------------------------------------------------------------
\* Shape classifier
\* ------------------------------------------------------------------------
is_multiline_string(v) ==
  IF is_string(v) THEN Contains(v.s, "\n") \/ ByteLen(v.s) > LONG_LINE_SIZE ELSE FALSE

is_object_with_keys(v) == is_object(v) /\ v.m # <<>>

is_empty_object(v) == ~is_object_with_keys(v)

\* ------------------------------------------------------------------------
\* Recursive value renderer
\* ------------------------------------------------------------------------
\* a routine's result: what it wrote, the lines_written it returns, and
\* whether it panicked
Res(w, n) == [w |-> w, n |-> n, panic |-> FALSE]
Panicked(w) == [w |-> w, n |-> 0, panic |-> TRUE]
\* running one routine after another, adding their lines_written
Then(a, b) == IF a.panic THEN a ELSE [w |-> a.w \o b.w, n |-> a.n + b.n, panic |-> b.panic]

Indent(sec, n) == Tok(sec, "indent", <<>>, Num(n))

RECURSIVE write_object(_, _, _)
RECURSIVE write_object_entries(_, _, _, _)
RECURSIVE write_object_elements(_, _, _, _)

\* the loop over the entries of a non-empty or empty object, from entry pos
write_object_entries(sec, map, pos, new_indent) ==
  IF pos > Len(map) THEN Res(<<>>, 0)
  ELSE LET inner == write_object(sec, map[pos].v, new_indent)
           sep == IF pos < Len(map) THEN <<Lit(sec, ","), NL(sec)>> ELSE <<NL(sec)>>
           this == Res(<<Indent(sec, new_indent), Tok(sec, "qkey", <<map[pos].k>>, Null)>>
                         \o inner.w \o sep, inner.n + 1)
       IN Then(this, write_object_entries(sec, map, pos + 1, new_indent))

\* the loop over the elements of a non-empty array, from element pos
write_object_elements(sec, array, pos, new_indent) ==
  IF pos > Len(array) THEN Res(<<>>, 0)
  ELSE LET inner == write_object(sec, array[pos], new_indent)
           sep == IF pos < Len(array) THEN <<Lit(sec, ","), NL(sec)>> ELSE <<NL(sec)>>
           this == Res(<<Indent(sec, new_indent)>> \o inner.w \o sep, inner.n + 1)
       IN Then(this, write_object_elements(sec, array, pos + 1, new_indent))

write_object(sec, val, indent) ==
  CASE is_string(val) \/ is_number(val) \/ is_boolean(val) ->
         Res(<<Tok(sec, "json", <<>>, val)>>, 0)
    [] is_null(val) -> Res(<<Lit(sec, "null")>>, 0)
    [] is_object(val) ->
         Then(Res(<<Lit(sec, "{"), NL(sec)>>, 0),
              Then(write_object_entries(sec, val.m, 1, indent + 2),
                   Res(<<Indent(sec, indent), Lit(sec, "}")>>, 0)))
    [] is_array(val) ->
         IF val.a = <<>> THEN Res(<<Lit(sec, "[]")>>, 0)
         ELSE Then(Res(<<Lit(sec, "["), NL(sec)>>, 1),
                   Then(write_object_elements(sec, val.a, 1, indent + 2),
                        Res(<<Indent(sec, indent), Lit(sec, "]")>>, 0)))

\* ------------------------------------------------------------------------
\* Inline parameters of the header line
\* ------------------------------------------------------------------------
\* the record rendered by write_long_format
\*   req_id : Option(value); req, client_req, res, client_res, err : Option(map)
\*   other : map

\* the filter of write_string_value_params
is_string_value_param(v) == ~is_multiline_string(v) /\ ~is_array(v) /\ is_empty_object(v)

\* optional_req_id: Value::as_str is None for a number
optional_req_id(line) ==
  IF line.req_id.some
  THEN IF is_string(line.req_id.v) \/ is_number(line.req_id.v)
       THEN IF is_string(line.req_id.v) THEN Some(line.req_id.v) ELSE None
       ELSE None
  ELSE None

\* the tag of the inline items of a sub-object
InlineSec(param_name) == "inline." \o param_name

\* " (" before the first item, ", " before the others
ItemLead(sec, is_first) == IF is_first THEN Lit(sec, " (") ELSE Lit(sec, ", ")

\* one k=v item of `other`
other_item(e) ==
  IF is_string(e.v)
  THEN IF Contains(e.v.s, " ")
       THEN Tok("inline.other", "item_quoted", <<e.k>>, e.v)
       ELSE Tok("inline.other", "item_raw", <<e.k>>, e.v)
  ELSE Tok("inline.other", "item_json", <<e.k>>, e.v)

RECURSIVE other_items(_, _)
\* the for loop over params; st = [w, is_first]
other_items(params, st) ==
  IF params = <<>> THEN st
  ELSE other_items(Tail(params),
         [w |-> st.w \o <<ItemLead("inline.other", st.is_first), other_item(Head(params))>>,
          is_first |-> FALSE])

extra_item_filter(k, v) == k # "trailer" /\ (is_null(v) \/ is_boolean(v))

\* the filter of write_req_res_string_value_params
is_req_res_item(e, extra) ==
  \/ (~is_object_with_keys(e.v) /\ e.k \notin extra)
  \/ (e.k \in extra /\ extra_item_filter(e.k, e.v))

\* one <param_name>.<key>=<value> item
req_res_item(param_name, e) ==
  LET display_key == IF e.k = "raw_body" THEN <<param_name>> ELSE <<param_name, e.k>>
      quoted == IF is_string(e.v) THEN Contains(e.v.s, " ") ELSE JsonHasSpace(e.v)
      f == IF quoted THEN "item_quoted"
           ELSE IF is_string(e.v) THEN "item_raw" ELSE "item_json"
  IN Tok(InlineSec(param_name), f, display_key, e.v)

RECURSIVE req_res_items(_, _, _)
req_res_items(param_name, items, st) ==
  IF items = <<>> THEN st
  ELSE req_res_items(param_name, Tail(items),
         [w |-> st.w \o <<ItemLead(InlineSec(param_name), st.is_first),
                          req_res_item(param_name, Head(items))>>,
          is_first |-> FALSE])

\* returns [w, is_first, had]
write_req_res_string_value_params(optional_params, param_name, is_first, extra) ==
  IF optional_params.some
  THEN LET Keep(e) == is_req_res_item(e, extra)
           items == SelectSeq(optional_params.v, Keep)
           st == req_res_items(param_name, items, [w |-> <<>>, is_first |-> is_first])
       IN [w |-> st.w, is_first |-> st.is_first, had |-> items # <<>>]
  ELSE [w |-> <<>>, is_first |-> is_first, had |-> FALSE]

\* write_string_value_params closing the parenthesis for its own items only
write_string_value_params_close_on_own_params(line) ==
  LET Keep(e) == is_string_value_param(e.v)
      params == SelectSeq(line.other, Keep)
      rid == optional_req_id(line)
      has_any_params == params # <<>> \/ rid.some
      s0 == IF rid.some
            THEN [w |-> <<Lit("inline.req_id", " ("),
                         Tok("inline.req_id", "item_raw", <<"req_id">>, rid.v)>>,
                  is_first |-> FALSE]
            ELSE [w |-> <<>>, is_first |-> TRUE]
      s1 == other_items(params, s0)
      r1 == write_req_res_string_value_params(line.req, "req", s1.is_first, REQ_EXTRA)
      r2 == write_req_res_string_value_params(line.client_req, "client_req", r1.is_first,
                                              CLIENT_REQ_EXTRA)
      r3 == write_req_res_string_value_params(line.res, "res", r2.is_first, RES_EXTRA)
      r4 == write_req_res_string_value_params(line.client_res, "client_res", r3.is_first,
                                              CLIENT_RES_EXTRA)
      r5 == write_req_res_string_value_params(line.err, "err", r4.is_first, ERR_EXTRA)
      close == IF has_any_params THEN <<Lit("inline.close", ")")>> ELSE <<>>
  IN s1.w \o r1.w \o r2.w \o r3.w \o r4.w \o r5.w \o close

write_string_value_params(line) ==
  LET Keep(e) == is_string_value_param(e.v)
      params == SelectSeq(line.other, Keep)
      rid == optional_req_id(line)
      has_any_params == params # <<>> \/ rid.some
      s0 == IF rid.some
            THEN [w |-> <<Lit("inline.req_id", " ("),
                         Tok("inline.req_id", "item_raw", <<"req_id">>, rid.v)>>,
                  is_first |-> FALSE]
            ELSE [w |-> <<>>, is_first |-> TRUE]
      s1 == other_items(params, s0)
      r1 == write_req_res_string_value_params(line.req, "req", s1.is_first, REQ_EXTRA)
      r2 == write_req_res_string_value_params(line.client_req, "client_req", r1.is_first,
                                              CLIENT_REQ_EXTRA)
      r3 == write_req_res_string_value_params(line.res, "res", r2.is_first, RES_EXTRA)
      r4 == write_req_res_string_value_params(line.client_res, "client_res", r3.is_first,
                                              CLIENT_RES_EXTRA)
      r5 == write_req_res_string_value_params(line.err, "err", r4.is_first, ERR_EXTRA)
      close == IF has_any_params \/ r1.had \/ r2.had \/ r3.had \/ r4.had \/ r5.had
               THEN <<Lit("inline.close", ")")>> ELSE <<>>
  IN s1.w \o r1.w \o r2.w \o r3.w \o r4.w \o r5.w \o close

\* ------------------------------------------------------------------------
\* Section renderers
\* ------------------------------------------------------------------------
\* writeln!(writer, "{:indent$}{}", "", line) for each of the lines
TextLines(sec, lines) ==
  Flatten([i \in 1..Len(lines) |->
             <<Indent(sec, BASE_INDENT_SIZE), Tok(sec, "raw", <<>>, Str(lines[i])), NL(sec)>>])

write_req_summary(sec, optional_req) ==
  IF optional_req.some
  THEN Res(<<Indent(sec, BASE_INDENT_SIZE),
             get_or_default(sec, optional_req.v, "method", "undefined"), Lit(sec, " "),
             get_or_default(sec, optional_req.v, "url", "undefined"), Lit(sec, " "),
             Lit(sec, "HTTP/"), get_or_default(sec, optional_req.v, "httpVersion", "1.1"),
             NL(sec)>>, 1)
  ELSE Res(<<>>, 0)

\* one entry of an object of headers: "key:" and the lines of its value
write_key_and_val(sec, e) ==
  LET ls == SovLines(e.v)
      piece(i) == IF is_string(e.v) THEN Tok(sec, "raw", <<>>, Str(ls[i]))
                  ELSE Tok(sec, "json", <<>>, e.v)
  IN Res(<<Indent(sec, BASE_INDENT_SIZE), Tok(sec, "key", <<e.k>>, Null), Lit(sec, ":")>>
           \o Flatten([i \in 1..Len(ls) |->
                         IF i = 1 THEN <<Lit(sec, " "), piece(i), NL(sec)>>
                         ELSE <<Indent(sec, BASE_INDENT_SIZE), piece(i), NL(sec)>>]),
         Len(ls))

RECURSIVE ThenAll(_)
\* running a sequence of routines one after another
ThenAll(rs) == IF rs = <<>> THEN Res(<<>>, 0) ELSE Then(Head(rs), ThenAll(Tail(rs)))

\* write_keys_and_vals of write_req_details
write_keys_and_vals(sec, val) ==
  IF is_object(val)
  THEN ThenAll([i \in 1..Len(val.m) |-> write_key_and_val(sec, val.m[i])])
  ELSE IF is_string(val)
       THEN LET NotBlank(l) == ~TrimIsEmpty(l)
                ls == SelectSeq(Lines(val.s), NotBlank)
            IN Res(TextLines(sec, ls), Len(ls))
       ELSE Res(<<>>, 0)

write_req_details(sec, optional_req) ==
  IF optional_req.some
  THEN LET req_map == optional_req.v
           part(key) == IF MapGet(req_map, key).some
                        THEN write_keys_and_vals(sec, MapGet(req_map, key).v)
                        ELSE Res(<<>>, 0)
           body == IF MapGet(req_map, "body").some
                   THEN Res(<<Indent(sec, BASE_INDENT_SIZE),
                              string_or_value(sec, MapGet(req_map, "body").v), NL(sec)>>, 1)
                   ELSE Res(<<>>, 0)
       IN ThenAll(<<part("header"), part("headers"), body, part("trailers")>>)
  ELSE Res(<<>>, 0)

write_req(sec, optional_req) ==
  Then(write_req_summary(sec, optional_req), write_req_details(sec, optional_req))

write_client_req(sec, optional_req) ==
  IF optional_req.some
  THEN LET client_req == optional_req.v
           address == MapGet(client_req, "address")
           port == MapGet(client_req, "port")
           host == IF address.some /\ is_string(address.v)
                   THEN Res(<<Indent(sec, BASE_INDENT_SIZE), Lit(sec, "Host: "),
                              string_or_value(sec, address.v)>>
                            \o (IF port.some /\ (is_string(port.v) \/ is_number(port.v))
                                THEN <<Lit(sec, ":"), string_or_value(sec, port.v)>>
                                ELSE <<>>)
                            \o <<NL(sec)>>, 1)
                   ELSE Res(<<>>, 0)
       IN ThenAll(<<write_req_summary(sec, optional_req), host,
                    write_req_details(sec, optional_req)>>)
  ELSE Res(<<>>, 0)

DigitVal(c) ==
  CASE c = "0" -> 0 [] c = "1" -> 1 [] c = "2" -> 2 [] c = "3" -> 3 [] c = "4" -> 4
    [] c = "5" -> 5 [] c = "6" -> 6 [] c = "7" -> 7 [] c = "8" -> 8 [] c = "9" -> 9
    [] OTHER -> -1

RECURSIVE ParseDigits(_, _)
\* the digits of s appended to acc, -1 for a non-digit or a value above u16::MAX
ParseDigits(s, acc) ==
  IF s = <<>> THEN acc
  ELSE IF DigitVal(Head(s)) < 0 \/ acc * 10 + DigitVal(Head(s)) > U16_MAX THEN -1
       ELSE ParseDigits(Tail(s), acc * 10 + DigitVal(Head(s)))

\* str::parse::<u16>: digits with an optional leading "+"
ParseU16(s) ==
  LET digits == IF s # <<>> /\ Head(s) = "+" THEN Tail(s) ELSE s
  IN IF digits = <<>> \/ ParseDigits(digits, 0) < 0 THEN None
     ELSE Some(ParseDigits(digits, 0))

\* Value::as_u64
as_u64(v) == IF v.int /\ v.n >= 0 THEN Some(v.n) ELSE None

\* numeric_status_code casting to u16 without the test against u16::MAX
numeric_status_code_truncating(optional_code) ==
  IF optional_code.some
  THEN IF is_number(optional_code.v)
       THEN IF as_u64(optional_code.v).some
            THEN Some(as_u64(optional_code.v).v % (U16_MAX + 1))
            ELSE None
       ELSE IF is_string(optional_code.v) THEN ParseU16(optional_code.v.s)
            ELSE None
  ELSE None

numeric_status_code(optional_code) ==
  IF optional_code.some
  THEN IF is_number(optional_code.v)
       THEN IF as_u64(optional_code.v).some
            THEN IF as_u64(optional_code.v).v > U16_MAX THEN None
                 ELSE Some(as_u64(optional_code.v).v % (U16_MAX + 1))
            ELSE None
       ELSE IF is_string(optional_code.v) THEN ParseU16(optional_code.v.s)
            ELSE None
  ELSE None

write_res_status_code(sec, optional_code, option_http_version) ==
  LET code == numeric_status_code(optional_code)
  IN IF code.some
     THEN Res(<<Indent(sec, BASE_INDENT_SIZE), Lit(sec, "HTTP/"),
                (IF option_http_version.some
                 THEN Tok(sec, "raw", <<>>, Str(option_http_version.v))
                 ELSE Lit(sec, "1.1")),
                Tok(sec, "status", <<>>, Num(code.v)), NL(sec)>>, 1)
     ELSE Res(<<>>, 0)

write_headers(sec, headers_val) ==
  IF is_object(headers_val)
  THEN ThenAll([i \in 1..Len(headers_val.m) |->
                  Res(<<Indent(sec, BASE_INDENT_SIZE),
                        Tok(sec, "key", <<headers_val.m[i].k>>, Null), Lit(sec, ": "),
                        string_or_value(sec, headers_val.m[i].v), NL(sec)>>, 1)])
  ELSE Res(<<>>, 0)

\* optional_headers looking at headers first
optional_headers_headers_first(res_map) ==
  IF MapGet(res_map, "headers").some THEN MapGet(res_map, "headers")
  ELSE MapGet(res_map, "header")

\* the headers of write_res: header, or headers when header is absent
optional_headers(res_map) ==
  IF MapGet(res_map, "header").some THEN MapGet(res_map, "header")
  ELSE MapGet(res_map, "headers")

\* the part of write_res that writes the status line and the headers;
\* &headers_str[5..8] panics when the string is shorter than 8
write_res_head(sec, res_map) ==
  LET headers == optional_headers(res_map)
      code == MapGet(res_map, "statusCode")
  IN IF headers.some
     THEN IF is_string(headers.v)
          THEN LET headers_str == headers.v.s
                   NotEmpty(l) == l # <<>>
                   ls == SelectSeq(Lines(headers_str), NotEmpty)
               IN IF StartsWith(headers_str, <<"H", "T", "T", "P", "/">>)
                  THEN IF Len(headers_str) < 8 THEN Panicked(<<>>)
                       ELSE Then(write_res_status_code(sec, code,
                                                       Some(SubSeq(headers_str, 6, 8))),
                                 Res(TextLines(sec, ls), Len(ls)))
                  ELSE Then(write_res_status_code(sec, code, None),
                            Res(TextLines(sec, ls), Len(ls)))
          ELSE IF is_object(headers.v) \/ is_null(headers.v)
               THEN Then(write_res_status_code(sec, code, None),
                         write_headers(sec, headers.v))
               ELSE Res(<<>>, 0)
     ELSE write_res_status_code(sec, code, None)

write_res(sec, optional_res) ==
  IF optional_res.some
  THEN LET res_map == optional_res.v
           body_val == MapGet(res_map, "body")
           body == IF body_val.some /\ is_string(body_val.v) /\ body_val.v.s # <<>>
                   THEN Res(<<NL(sec)>> \o TextLines(sec, Lines(body_val.v.s)),
                            1 + Len(Lines(body_val.v.s)))
                   ELSE Res(<<>>, 0)
           one(e) == IF e.k \notin RES_EXTRA /\ is_object(e.v)
                     THEN ThenAll(<<Res(<<Indent(sec, BASE_INDENT_SIZE),
                                          Tok(sec, "key", <<"res", e.k>>, Null),
                                          Lit(sec, ": ")>>, 0),
                                    write_object(sec, e.v, BASE_INDENT_SIZE),
                                    Res(<<NL(sec)>>, 1)>>)
                     ELSE Res(<<>>, 0)
       IN ThenAll(<<write_res_head(sec, res_map), body,
                    ThenAll([i \in 1..Len(res_map) |-> one(res_map[i])])>>)
  ELSE Res(<<>>, 0)

has_object_value_params(line) ==
  \E i \in 1..Len(line.other) : is_object(line.other[i].v) \/ is_array(line.other[i].v)

\* the filter of write_object_value_params letting no array through
is_object_value_param_objects_only(v) == is_object_with_keys(v)

\* the filter of write_object_value_params
is_object_value_param(v) == is_object_with_keys(v) \/ is_array(v)

DividerLine(sec) == <<Indent(sec, BASE_INDENT_SIZE), Tok(sec, "divider", <<>>, Null), NL(sec)>>

write_object_value_params(sec, line) ==
  LET Keep(e) == is_object_value_param(e.v)
      params == SelectSeq(line.other, Keep)
      one(i) == ThenAll(<<(IF i > 1 THEN Res(DividerLine(sec), 1) ELSE Res(<<>>, 0)),
                          Res(<<Indent(sec, BASE_INDENT_SIZE),
                                Tok(sec, "key", <<params[i].k>>, Null), Lit(sec, ": ")>>, 0),
                          write_object(sec, params[i].v, BASE_INDENT_SIZE),
                          Res(<<NL(sec)>>, 1)>>)
  IN ThenAll([i \in 1..Len(params) |-> one(i)])

write_err(sec, err_map) ==
  LET stack_val == MapGet(err_map, "stack")
  IN IF stack_val.some
     THEN IF is_string(stack_val.v)
          THEN Res(TextLines(sec, Lines(stack_val.v.s)), Len(Lines(stack_val.v.s)))
          ELSE IF is_array(stack_val.v)
               THEN ThenAll([i \in 1..Len(stack_val.v.a) |->
                               Res(<<Indent(sec, BASE_INDENT_SIZE),
                                     string_or_value(sec, stack_val.v.a[i]), NL(sec)>>, 1)])
               ELSE Res(<<>>, 0)
     ELSE Res(<<>>, 0)

has_multiline_params(line) ==
  \E i \in 1..Len(line.other) : is_multiline_string(line.other[i].v)

write_multiline_string_value_params(sec, line) ==
  LET Keep(e) == is_multiline_string(e.v)
      params == SelectSeq(line.other, Keep)
      one(e) ==
        LET ls == Lines(e.v.s)
        IN Res(Flatten([i \in 1..Len(ls) |->
                 IF i = 1
                 THEN <<Indent(sec, BASE_INDENT_SIZE), Tok(sec, "key", <<e.k>>, Null),
                        Lit(sec, ": "), Tok(sec, "raw", <<>>, Str(ls[i])), NL(sec)>>
                 ELSE <<Indent(sec, BASE_INDENT_SIZE), Tok(sec, "raw", <<>>, Str(ls[i])),
                        NL(sec)>>]), Len(ls))
  IN ThenAll([i \in 1..Len(params) |-> one(params[i])])

\* ------------------------------------------------------------------------
\* write_long_format: header, then the sections under the divider policy
\* ------------------------------------------------------------------------
\* the header line: the fixed part, the inline parameters, the line break
write_header(line) ==
  <<Tok("header", "header", <<>>, Null)>> \o write_string_value_params(line)
    \o <<NL("header")>>

\* the if blocks with res ahead of client_req
LongSections_res_before_client_req ==
  <<"req", "res", "client_req", "client_res", "objs", "err", "multi">>

\* the if blocks of write_long_format, in their order
LongSections == <<"req", "client_req", "res", "client_res", "objs", "err", "multi">>

\* the condition of the if statement that guards a section
SectionPresent(sec, line) ==
  CASE sec = "req" -> line.req.some
    [] sec = "client_req" -> line.client_req.some
    [] sec = "res" -> line.res.some
    [] sec = "client_res" -> line.client_res.some
    [] sec = "objs" -> has_object_value_params(line)
    [] sec = "err" -> line.err.some
    [] sec = "multi" -> has_multiline_params(line)

\* the writer routine the section calls
SectionBody(sec, line) ==
  CASE sec = "req" -> write_req(sec, line.req)
    [] sec = "client_req" -> write_client_req(sec, line.client_req)
    [] sec = "res" -> write_res(sec, line.res)
    [] sec = "client_res" -> write_res(sec, line.client_res)
    [] sec = "objs" -> write_object_value_params(sec, line)
    [] sec = "err" -> write_err(sec, line.err.v)
    [] sec = "multi" -> write_multiline_string_value_params(sec, line)

\* AfterSection that keeps needs_divider set once a section has written
AfterSection_sticky_divider(sec, st, body) ==
  [w |-> st.w \o (IF st.needs_divider THEN DividerLine("divider") ELSE <<>>) \o body.w,
   needs_divider |-> st.needs_divider \/ body.n > 0,
   panic |-> body.panic]

\* the body of an if block: the divider when needs_divider, then the routine
\* (body is what the routine writes and returns), then needs_divider
AfterSection(sec, st, body) ==
  [w |-> st.w \o (IF st.needs_divider THEN DividerLine("divider") ELSE <<>>) \o body.w,
   needs_divider |-> IF sec = "multi" THEN st.needs_divider ELSE body.n > 0,
   panic |-> body.panic]

\* one of the seven if blocks; st = [w, needs_divider, panic]
SectionStep(sec, line, st) ==
  IF SectionPresent(sec, line) THEN AfterSection(sec, st, SectionBody(sec, line)) ELSE st

RECURSIVE SectionsFrom(_, _, _)
\* the if blocks from the i-th on; a panic ends the rendering
SectionsFrom(i, line, st) ==
  IF i > Len(LongSections) \/ st.panic THEN st
  ELSE SectionsFrom(i + 1, line, SectionStep(LongSections[i], line, st))

\* the whole of write_long_format: [w, needs_divider, panic]
write_long_format(line) ==
  SectionsFrom(1, line, [w |-> write_header(line), needs_divider |-> FALSE, panic |-> FALSE])

\* ------------------------------------------------------------------------
\* Input lines and their decoding (src/lib.rs)
\* ------------------------------------------------------------------------
\* An input line is [lead, body]: lead whitespace characters followed by
\* the body.  The body is
\*   j = "blank"   nothing but whitespace
\*   j = "garbage" text that is not JSON
\*   j = "scalar"  JSON that is not an object
\*   j = "object"  a JSON object with the top-level keys `fields`, the level
\*                 `level`, the name `name`, and the record `log` that the
\*                 Long renderer sees
EmptyLog ==
  [req_id |-> None, req |-> None, client_req |-> None, res |-> None,
   client_res |-> None, err |-> None, other |-> <<>>]

Body(j, fields, level, name, renders, log) ==
  [j |-> j, fields |-> fields, level |-> level, name |-> name, renders |-> renders,
   log |-> log]

Text(lead, body) == [lead |-> lead, body |-> body]

\* str::trim_start
trim_start(text) == [text EXCEPT !.lead = 0]

\* trimmed.trim_end().is_empty()
IsBlank(text) == text.body.j = "blank"

\* the fields of BunyanLine that are not Option
BunyanLineRequired == {"name", "hostname", "pid", "level", "msg", "time"}

\* serde_json::from_str::<Value>
ParsesAsValue(text) == text.body.j \in {"scalar", "object"}
\* serde_json::from_str::<Map<String, Value>>
ParsesAsMap(text) == text.body.j = "object"
\* serde_json::from_str::<BunyanLine>
ParsesAsBunyanLine(text) ==
  text.body.j = "object" /\ BunyanLineRequired \subseteq text.body.fields

\* ------------------------------------------------------------------------
\* LogLevel
\* ------------------------------------------------------------------------
\* the named levels, and LogLevel::OTHER(code)
Named(tag) == [tag |-> tag]
Other(code) == [tag |-> "OTHER", code |-> code]

LevelNames == {"TRACE", "DEBUG", "INFO", "WARN", "ERROR", "FATAL"}

\* the characters of the names
NameChars(tag) ==
  CASE tag = "TRACE" -> <<"T", "R", "A", "C", "E">>
    [] tag = "DEBUG" -> <<"D", "E", "B", "U", "G">>
    [] tag = "INFO" -> <<"I", "N", "F", "O">>
    [] tag = "WARN" -> <<"W", "A", "R", "N">>
    [] tag = "ERROR" -> <<"E", "R", "R", "O", "R">>
    [] tag = "FATAL" -> <<"F", "A", "T", "A", "L">>

as_u16(level) ==
  CASE level.tag = "TRACE" -> 10 [] level.tag = "DEBUG" -> 20 [] level.tag = "INFO" -> 30
    [] level.tag = "WARN" -> 40 [] level.tag = "ERROR" -> 50 [] level.tag = "FATAL" -> 60
    [] level.tag = "OTHER" -> level.code

DigitChar(d) == <<"0", "1", "2", "3", "4", "5", "6", "7", "8", "9">>[d + 1]

RECURSIVE FormatU16(_)
\* the decimal text of a u16, as format!("{}") writes it
FormatU16(n) ==
  IF n < 10 THEN <<DigitChar(n)>> ELSE Append(FormatU16(n \div 10), DigitChar(n % 10))

as_string(level) ==
  IF level.tag = "OTHER" THEN <<"L", "V", "L">> \o FormatU16(as_u16(level))
  ELSE NameChars(level.tag)

UpperCase ==
  <<"A", "B", "C", "D", "E", "F", "G", "H", "I", "J", "K", "L", "M", "N", "O", "P", "Q",
    "R", "S", "T", "U", "V", "W", "X", "Y", "Z">>
LowerCase ==
  <<"a", "b", "c", "d", "e", "f", "g", "h", "i", "j", "k", "l", "m", "n", "o", "p", "q",
    "r", "s", "t", "u", "v", "w", "x", "y", "z">>

\* the character of `to` at the place c has in `from`, c itself when absent
MapChar(c, from, to) ==
  IF \E i \in 1..Len(from) : from[i] = c
  THEN to[CHOOSE i \in 1..Len(from) : from[i] = c]
  ELSE c

to_ascii_uppercase(s) == [i \in 1..Len(s) |-> MapChar(s[i], LowerCase, UpperCase)]
to_ascii_lowercase(s) == [i \in 1..Len(s) |-> MapChar(s[i], UpperCase, LowerCase)]

\* str::strip_prefix, falling back to the text itself
strip_prefix_or_self(s, p) == IF StartsWith(s, p) THEN SubSeq(s, Len(p) + 1, Len(s)) ELSE s

Ok(x) == [ok |-> TRUE, v |-> x]
Err == [ok |-> FALSE]

\* From<u16> for LogLevel
LogLevelFrom(code) ==
  CASE code = 10 -> Named("TRACE") [] code = 20 -> Named("DEBUG") [] code = 30 -> Named("INFO")
    [] code = 40 -> Named("WARN") [] code = 50 -> Named("ERROR") [] code = 60 -> Named("FATAL")
    [] OTHER -> Other(code)

\* the place of the level's variant in the declaration of the enum
discriminant(level) ==
  CASE level.tag = "TRACE" -> 0 [] level.tag = "DEBUG" -> 1 [] level.tag = "INFO" -> 2
    [] level.tag = "WARN" -> 3 [] level.tag = "ERROR" -> 4 [] level.tag = "FATAL" -> 5
    [] level.tag = "OTHER" -> 6

\* a <= b under #[derive(Ord, PartialOrd)]: the variants in declaration
\* order, and two OTHER by their codes
le(a, b) ==
  IF discriminant(a) # discriminant(b) THEN discriminant(a) < discriminant(b)
  ELSE IF a.tag = "OTHER" THEN a.code <= b.code ELSE TRUE

\* LogLevel::parse turning the number into a level with From<u16>
parse_with_from(level) ==
  LET upper == to_ascii_uppercase(level)
      numeric_string == strip_prefix_or_self(upper, <<"L", "V", "L">>)
  IN IF \E tag \in LevelNames : NameChars(tag) = upper
     THEN Ok(Named(CHOOSE tag \in LevelNames : NameChars(tag) = upper))
     ELSE IF ParseU16(numeric_string).some
          THEN Ok(LogLevelFrom(ParseU16(numeric_string).v))
          ELSE Err

\* LogLevel::parse
parse(level) ==
  LET upper == to_ascii_uppercase(level)
      numeric_string == strip_prefix_or_self(upper, <<"L", "V", "L">>)
  IN IF \E tag \in LevelNames : NameChars(tag) = upper
     THEN Ok(Named(CHOOSE tag \in LevelNames : NameChars(tag) = upper))
     ELSE IF ParseU16(numeric_string).some
          THEN Ok(Other(ParseU16(numeric_string).v))
          ELSE Err

\* ------------------------------------------------------------------------
\* Output configuration
\* ------------------------------------------------------------------------
Json(indent) == [name |-> "json", indent |-> indent]
Format(name) == [name |-> name, indent |-> 0]

\* fragments written by the pipeline itself: a rendering f of a line's text
PTok(sec, f, text) == [sec |-> sec, f |-> f, text |-> text]

\* ConditionFilter::filter on the raw line: the predicate accepts the lines
\* whose record has the name it asks for
condition_filter_filter(condition_filter, line) == line.body.name = condition_filter

\* Error::new
ErrorNew(line, line_no, column) == [line |-> line, line_no |-> line_no, column |-> column]

\* handle_error echoing the line whenever it reports anything
handle_error_echo_in_debug(error, output_config) ==
  IF ~output_config.is_strict \/ output_config.is_debug
  THEN [out |-> <<PTok("handle_error", "text", error.line), NL("handle_error")>>,
        err |-> IF output_config.is_debug
                THEN <<[line_no |-> error.line_no, column |-> error.column]>>
                ELSE <<>>]
  ELSE [out |-> <<>>, err |-> <<>>]

\* handle_error: [out, err], what goes to the writer and what to stderr
handle_error(error, output_config) ==
  IF ~output_config.is_strict \/ output_config.is_debug
  THEN [out |-> IF ~output_config.is_strict
                THEN <<PTok("handle_error", "text", error.line), NL("handle_error")>>
                ELSE <<>>,
        err |-> IF output_config.is_debug
                THEN <<[line_no |-> error.line_no, column |-> error.column]>>
                ELSE <<>>]
  ELSE [out |-> <<>>, err |-> <<>>]

write_zero_indent_json(line, output_config, line_no) ==
  IF ParsesAsValue(line)
  THEN [out |-> <<PTok("json", "compact", line), NL("json")>>, err |-> <<>>]
  ELSE handle_error(ErrorNew(line, line_no, TRUE), output_config)

\* should_write_log without the level threshold
should_write_log_ignoring_level(output_config, log_level, line) ==
  IF output_config.condition_filter.some
  THEN [write_log |-> condition_filter_filter(output_config.condition_filter.v, line),
        filter_calls |-> 1]
  ELSE [write_log |-> TRUE, filter_calls |-> 0]

\* should_write_log with the condition filter evaluated before the level check
should_write_log_filter_first(output_config, log_level, line) ==
  LET level_ok == IF output_config.level.some THEN output_config.level.v <= log_level
                  ELSE TRUE
      passes == IF output_config.condition_filter.some
                THEN condition_filter_filter(output_config.condition_filter.v, line)
                ELSE TRUE
  IN [write_log |-> level_ok /\ passes,
      filter_calls |-> IF output_config.condition_filter.some THEN 1 ELSE 0]

\* the decision of the custom formats: [write_log, filter_calls]
should_write_log(output_config, log_level, line) ==
  LET level_ok == IF output_config.level.some THEN output_config.level.v <= log_level
                  ELSE TRUE
  IN IF level_ok
     THEN IF output_config.condition_filter.some
          THEN [write_log |-> condition_filter_filter(output_config.condition_filter.v, line),
                filter_calls |-> 1]
          ELSE [write_log |-> TRUE, filter_calls |-> 0]
     ELSE [write_log |-> FALSE, filter_calls |-> 0]

\* what write_log returns for the Long format: it has no error result
LongResult(r) == [w |-> r.w, ok |-> TRUE, panic |-> r.panic]

\* LogFormat::write_log: [w, ok, panic]
write_log(format, trimmed) ==
  CASE format.name = "long" -> LongResult(write_long_format(trimmed.body.log))
    [] format.name \in {"short", "simple"} ->
         IF trimmed.body.renders
         THEN [w |-> <<PTok(format.name, "record", trimmed), NL(format.name)>>,
               ok |-> TRUE, panic |-> FALSE]
         ELSE [w |-> <<>>, ok |-> FALSE, panic |-> FALSE]
    [] OTHER -> [w |-> <<>>, ok |-> FALSE, panic |-> TRUE]

\* what one step of the closure does with one line:
\* [out, err, filter_calls, write_log, panic]
Outcome(out, err) ==
  [out |-> out, err |-> err, filter_calls |-> 0, write_log |-> FALSE, panic |-> FALSE]

\* the result of handle_error or write_zero_indent_json as the line's outcome
OutcomeOf(r) == Outcome(r.out, r.err)

empty_line(line, output_config, line_no) == Outcome(<<NL("empty")>>, <<>>)

json_line(line, output_config, line_no) ==
  LET trimmed == trim_start(line)
  IN IF output_config.format.indent < 1
     THEN OutcomeOf(write_zero_indent_json(trimmed, output_config, line_no))
     ELSE Outcome(<<PTok("json", "pretty", trimmed), NL("json")>>, <<>>)

\* inspect_line reporting a record with a missing field as an error
inspect_line_missing_field_is_error(line, output_config, line_no) ==
  LET trimmed == trim_start(line)
  IN IF ParsesAsMap(trimmed)
     THEN IF \E i \in 1..Len(REQUIRED_FIELDS) : REQUIRED_FIELDS[i] \notin trimmed.body.fields
          THEN OutcomeOf(handle_error(ErrorNew(trimmed, line_no, TRUE), output_config))
          ELSE Outcome(<<PTok("inspect", "record", trimmed), NL("inspect")>>, <<>>)
     ELSE OutcomeOf(handle_error(ErrorNew(trimmed, line_no, TRUE), output_config))

inspect_line(line, output_config, line_no) ==
  LET trimmed == trim_start(line)
  IN IF ParsesAsMap(trimmed)
     THEN IF \E i \in 1..Len(REQUIRED_FIELDS) : REQUIRED_FIELDS[i] \notin trimmed.body.fields
          THEN OutcomeOf(write_zero_indent_json(trimmed, output_config, line_no))
          ELSE Outcome(<<PTok("inspect", "record", trimmed), NL("inspect")>>, <<>>)
     ELSE OutcomeOf(handle_error(ErrorNew(trimmed, line_no, TRUE), output_config))

\* after write_log returned r: handle_error on an Err result
after_write_log(r, e, filter_calls) ==
  IF r.ok \/ r.panic
  THEN [out |-> r.w, err |-> <<>>, filter_calls |-> filter_calls, write_log |-> TRUE,
        panic |-> r.panic]
  ELSE [out |-> r.w \o e.out, err |-> e.err, filter_calls |-> filter_calls,
        write_log |-> TRUE, panic |-> FALSE]

\* after the decision d on a decoded record
after_decision(d, trimmed, output_config, line_no) ==
  IF d.write_log
  THEN after_write_log(write_log(output_config.format, trimmed),
                       handle_error(ErrorNew(trimmed, line_no, FALSE), output_config),
                       d.filter_calls)
  ELSE [out |-> <<>>, err |-> <<>>, filter_calls |-> d.filter_calls,
        write_log |-> FALSE, panic |-> FALSE]

custom_line(line, output_config, line_no) ==
  IF ParsesAsBunyanLine(trim_start(line))
  THEN after_decision(should_write_log(output_config, trim_start(line).body.level, line),
                      trim_start(line), output_config, line_no)
  ELSE OutcomeOf(handle_error(ErrorNew(trim_start(line), line_no, TRUE), output_config))

\* the branch of the closure a line takes
Branch(line, output_config) ==
  IF ~output_config.is_strict /\ IsBlank(trim_start(line)) THEN "empty"
  ELSE IF output_config.format.name = "json" THEN "json"
       ELSE IF output_config.format.name = "inspect" THEN "inspect"
            ELSE "custom"

process_line(line, output_config, line_no) ==
  CASE Branch(line, output_config) = "empty" -> empty_line(line, output_config, line_no)
    [] Branch(line, output_config) = "json" -> json_line(line, output_config, line_no)
    [] Branch(line, output_config) = "inspect" -> inspect_line(line, output_config, line_no)
    [] Branch(line, output_config) = "custom" -> custom_line(line, output_config, line_no)

RECURSIVE run_from(_, _, _, _)
\* write_bunyan_output on the lines from the i-th on, given the writer so far
run_from(i, lines, output_config, out) ==
  IF i > Len(lines) THEN out
  ELSE IF process_line(lines[i], output_config, i).panic
       THEN out \o process_line(lines[i], output_config, i).out
       ELSE run_from(i + 1, lines, output_config,
                     out \o process_line(lines[i], output_config, i).out)

\* what write_bunyan_output writes to the sink for the whole of `lines`
sink_of(lines, output_config) == run_from(1, lines, output_config, <<>>)

\* ------------------------------------------------------------------------
\* Inputs the model draws from
\* ------------------------------------------------------------------------
AllFields == {"v", "level", "hostname", "pid", "time", "msg", "name"}

\* a record with a request and a response that renders no line
LogReqEmptyRes == [EmptyLog EXCEPT !.req = Some(<<Entry("method", Str(<<"G">>))>>),
                                   !.res = Some(<<>>)]
\* a record whose response header is "HTTP/1"
LogShortHttpHeader ==
  [EmptyLog EXCEPT !.res = Some(<<Entry("header", Str(<<"H", "T", "T", "P", "/", "1">>))>>)]

BlankBody == Body("blank", {}, 0, "", TRUE, EmptyLog)
GarbageBody == Body("garbage", {}, 0, "", TRUE, EmptyLog)
ScalarBody == Body("scalar", {}, 0, "", TRUE, EmptyLog)

InputLines ==
  { Text(0, BlankBody), Text(2, BlankBody),
    Text(0, GarbageBody), Text(2, GarbageBody),
    Text(0, ScalarBody),
    Text(0, Body("object", AllFields \ {"name"}, 30, "", TRUE, EmptyLog)),
    Text(0, Body("object", AllFields \ {"v"}, 30, "a", TRUE, EmptyLog)),
    Text(1, Body("object", AllFields, 50, "b", TRUE, LogReqEmptyRes)),
    Text(0, Body("object", AllFields, 50, "a", FALSE, EmptyLog)),
    Text(0, Body("object", AllFields, 60, "a", TRUE, LogShortHttpHeader)) }

RECURSIVE SeqsUpTo(_, _)
\* the sequences over S of length at most n
SeqsUpTo(S, n) ==
  IF n = 0 THEN {<<>>}
  ELSE LET shorter == SeqsUpTo(S, n - 1)
       IN shorter \cup {Append(q, x) : q \in {r \in shorter : Len(r) = n - 1}, x \in S}

Formats == {Json(0), Json(2), Format("inspect"), Format("long"), Format("short"),
            Format("simple")}

Configs ==
  [format : Formats, is_strict : BOOLEAN, is_debug : BOOLEAN,
   level : {None, Some(40)}, condition_filter : {None, Some("a")}]

IdleConfig ==
  [format |-> Json(0), is_strict |-> FALSE, is_debug |-> FALSE, level |-> None,
   condition_filter |-> None]

OtherKey(i) == "k" \o ToString(i)

OtherValues ==
  { Str(<<"a", " ", "b">>), Str(<<"a", "\n", "b">>), Obj(<<>>),
    Obj(<<Entry("n", Num(1))>>) }

\* the `other` maps: up to MaxOther entries, keyed in insertion order
Others ==
  {[i \in 1..Len(vs) |-> Entry(OtherKey(i), vs[i])] : vs \in SeqsUpTo(OtherValues, MaxOther)}

Logs ==
  [req_id : {None, Some(Str(<<"r">>)), Some(Num(7))},
   req : {None, Some(<<Entry("body", Null)>>)},
   client_req : {None, Some(<<Entry("address", Str(<<"h">>))>>)},
   res : {None, Some(<<>>), Some(<<Entry("statusCode", Num(200))>>),
          Some(<<Entry("header", Str(<<"H", "T", "T", "P", "/", "1">>))>>)},
   client_res : {None, Some(<<>>)},
   err : {None, Some(<<Entry("name", Null)>>), Some(<<Entry("stack", Str(<<"s">>))>>)},
   other : Others]

\* the sub-objects of a record and their extra keys
SubObjects == {"req", "client_req", "res", "client_res", "err"}

ExtraOf(sub) ==
  CASE sub = "req" -> REQ_EXTRA [] sub = "client_req" -> CLIENT_REQ_EXTRA
    [] sub = "res" -> RES_EXTRA [] sub = "client_res" -> CLIENT_RES_EXTRA
    [] sub = "err" -> ERR_EXTRA

\* records with one sub-object that holds one key: trailer, trailers, or
\* header or name, under a null, a boolean or a string
TrailerLogs ==
  {[EmptyLog EXCEPT ![sub] = Some(<<Entry(k, v)>>)] :
     sub \in SubObjects, k \in {"trailer", "trailers", "header", "name"},
     v \in {Null, Bool(TRUE), Str(<<"t">>)}}

\* records whose `other` holds one value of a shape `Others` lacks: arrays,
\* scalars, a string just over LONG_LINE_SIZE
ShapeLogs ==
  {[EmptyLog EXCEPT !.other = <<Entry(OtherKey(1), v)>>] :
     v \in {Arr(<<>>), Arr(<<Num(1)>>), Null, Bool(TRUE), Num(1), Str(<<>>),
            Str(Repeated("a", LONG_LINE_SIZE + 1))}}

\* ------------------------------------------------------------------------
\* State
\* ------------------------------------------------------------------------
VARIABLES
  \* write_bunyan_output
  output_config,  \* the LoggerOutputConfig of the run
  input,          \* the lines the reader yields
  line_no,        \* the line counter
  out,            \* the writer (the sink)
  errs,           \* stderr
  steps,          \* per handled line: the writer's length after it, the calls
                  \* of the condition filter, whether write_log was called
  pc,             \* "run", "done", "panicked" ("idle": no run)
  \* write_long_format
  log,            \* the record being rendered
  writer,         \* what has been written for it
  needs_divider,  \* the local of that name
  at,             \* 0 before the header, i at the i-th if block
  long_pc,        \* "run", "done", "panicked" ("idle": no rendering)
  \* one call of a routine on its own
  call,           \* [fn, ...]: the routine called and its arguments
  ret             \* None until the routine returned, then Some(its result)

vars ==
  <<output_config, input, line_no, out, errs, steps, pc, log, writer, needs_divider, at,
    long_pc, call, ret>>
runVars == <<output_config, input, line_no, out, errs, steps, pc>>
longVars == <<log, writer, needs_divider, at, long_pc>>
callVars == <<call, ret>>

\* no routine is called on its own
NoCall == [fn |-> "none"]

\* ------------------------------------------------------------------------
\* write_bunyan_output
\* ------------------------------------------------------------------------
Init ==
  /\ output_config \in Configs
  /\ input \in SeqsUpTo(InputLines, MaxLines)
  /\ line_no = 0
  /\ out = <<>>
  /\ errs = <<>>
  /\ steps = <<>>
  /\ pc = "run"
  /\ log = EmptyLog /\ writer = <<>> /\ needs_divider = FALSE /\ at = 0
  /\ long_pc = "idle"
  /\ call = NoCall /\ ret = None

\* the effect r of one call of the closure on the state
Commit(r) ==
  /\ line_no' = line_no + 1
  /\ out' = out \o r.out
  /\ errs' = errs \o r.err
  /\ steps' = Append(steps, [mark |-> Len(out) + Len(r.out),
                             filter_calls |-> r.filter_calls,
                             write_log |-> r.write_log])
  /\ pc' = IF r.panic THEN "panicked" ELSE "run"

\* one call of the closure, on a line that takes the given branch
Handle(branch) ==
  /\ pc = "run"
  /\ line_no < Len(input)
  /\ Branch(input[line_no + 1], output_config) = branch
  /\ Commit(process_line(input[line_no + 1], output_config, line_no + 1))
  /\ UNCHANGED <<output_config, input>>
  /\ UNCHANGED longVars
  /\ UNCHANGED callVars

EmptyLine == Handle("empty")
JsonLine == Handle("json")
InspectLine == Handle("inspect")
CustomLine == Handle("custom")

\* the reader is exhausted: for_each returns
Finish ==
  /\ pc = "run"
  /\ line_no = Len(input)
  /\ pc' = "done"
  /\ UNCHANGED <<output_config, input, line_no, out, errs, steps>>
  /\ UNCHANGED longVars
  /\ UNCHANGED callVars

Next == EmptyLine \/ JsonLine \/ InspectLine \/ CustomLine \/ Finish

Spec == Init /\ [][Next]_vars

\* the closure runs to completion for each line and for_each does not wait
FairSpec == Spec /\ WF_vars(Next)

\* ------------------------------------------------------------------------
\* write_long_format, one if block at a time
\* ------------------------------------------------------------------------
InitLong ==
  /\ log \in Logs \cup TrailerLogs \cup ShapeLogs
  /\ writer = <<>>
  /\ needs_divider = FALSE
  /\ at = 0
  /\ long_pc = "run"
  /\ output_config = IdleConfig /\ input = <<>> /\ line_no = 0 /\ out = <<>>
  /\ errs = <<>> /\ steps = <<>> /\ pc = "idle"
  /\ call = NoCall /\ ret = None

WriteHeader ==
  /\ long_pc = "run"
  /\ at = 0
  /\ writer' = write_header(log)
  /\ needs_divider' = FALSE
  /\ at' = 1
  /\ long_pc' = "run"
  /\ UNCHANGED log
  /\ UNCHANGED runVars
  /\ UNCHANGED callVars

\* the state after the i-th if block left st
CommitSection(i, st) ==
  /\ writer' = st.w
  /\ needs_divider' = st.needs_divider
  /\ at' = IF st.panic THEN i ELSE i + 1
  /\ long_pc' = IF st.panic THEN "panicked"
                ELSE IF i = Len(LongSections) THEN "done" ELSE "run"

Section(i) ==
  /\ long_pc = "run"
  /\ at = i
  /\ CommitSection(i, SectionStep(LongSections[i], log,
                                  [w |-> writer, needs_divider |-> needs_divider,
                                   panic |-> FALSE]))
  /\ UNCHANGED log
  /\ UNCHANGED runVars
  /\ UNCHANGED callVars

ReqSection == Section(1)
ClientReqSection == Section(2)
ResSection == Section(3)
ClientResSection == Section(4)
ObjectsSection == Section(5)
ErrSection == Section(6)
MultilineSection == Section(7)

NextLong ==
  \/ WriteHeader \/ ReqSection \/ ClientReqSection \/ ResSection \/ ClientResSection
  \/ ObjectsSection \/ ErrSection \/ MultilineSection

SpecLong == InitLong /\ [][NextLong]_vars

\* ------------------------------------------------------------------------
\* The routines called on their own, one call per behaviour
\* ------------------------------------------------------------------------
\* an entry under key k when the option holds a value
OptEntry(k, o) == IF o.some THEN <<Entry(k, o.v)>> ELSE <<>>

\* the res maps: header and headers in either order, then statusCode
ResMap(header, headers, status_code, headers_first) ==
  (IF headers_first
   THEN OptEntry("headers", headers) \o OptEntry("header", header)
   ELSE OptEntry("header", header) \o OptEntry("headers", headers))
    \o OptEntry("statusCode", status_code)

HeaderChoices ==
  {None, Some(Str(<<"h">>)), Some(Obj(<<Entry("x-a", Str(<<"1">>))>>)), Some(Null),
   Some(Num(1))}
HeadersChoices == {None, Some(Str(<<"g">>)), Some(Obj(<<Entry("x-b", Str(<<"2">>))>>))}

WriteResCalls ==
  {[fn |-> "write_res", sec |-> sec, res_map |-> ResMap(h, hs, sc, first)] :
     sec \in {"res", "client_res"}, h \in HeaderChoices, hs \in HeadersChoices,
     sc \in {None, Some(Num(200))}, first \in BOOLEAN}

StatusCodes ==
  {None, Some(Num(0)), Some(Num(200)), Some(Num(U16_MAX)), Some(Num(U16_MAX + 1)),
   Some(Num(U16_MAX + 1 + 200)), Some(Num(-1)), Some(Float(200)),
   Some(Str(<<"2", "0", "0">>)), Some(Str(<<"6", "5", "5", "3", "5">>)),
   Some(Str(<<"6", "5", "5", "3", "6">>)), Some(Str(<<"+", "7">>)), Some(Str(<<"-", "7">>)),
   Some(Str(<<"a">>)), Some(Str(<<>>)), Some(Null), Some(Bool(TRUE)), Some(Arr(<<>>)),
   Some(Obj(<<>>))}

StatusCodeCalls ==
  {[fn |-> "write_res_status_code", optional_code |-> c, option_http_version |-> hv] :
     c \in StatusCodes, hv \in {None, Some(<<"1", ".", "0">>)}}

\* strings around the LONG_LINE_SIZE threshold, in ASCII and in a two-byte
\* character, strings with a line break, and values that are not strings
MultilineArgs ==
  {Str(Repeated("a", n)) : n \in {0, 1, LONG_LINE_SIZE - 1, LONG_LINE_SIZE, LONG_LINE_SIZE + 1}}
  \cup {Str(Repeated("a", n) \o <<"\n">>) : n \in {0, 3}}
  \cup {Str(Repeated("U+00E9", n)) : n \in {LONG_LINE_SIZE \div 2, LONG_LINE_SIZE \div 2 + 1,
                                           LONG_LINE_SIZE}}
  \cup {Null, Bool(TRUE), Num(LONG_LINE_SIZE + 1),
        Arr(<<Str(Repeated("a", LONG_LINE_SIZE + 1))>>),
        Obj(<<Entry("k", Str(<<"a", "\n">>))>>)}

IsMultilineStringCalls == {[fn |-> "is_multiline_string", v |-> v] : v \in MultilineArgs}

\* every named level, and OTHER(n) for codes that include those of the named
\* levels and the ends of u16
LogLevels ==
  {Named(tag) : tag \in LevelNames}
  \cup {Other(n) : n \in {0, 7, 10, 60, 100, 1001, U16_MAX}}

\* the level's name, as written or in lower case, handed to LogLevel::parse
ParseCalls ==
  {[fn |-> "parse", level |-> l, lower_case |-> lc] : l \in LogLevels, lc \in BOOLEAN}

\* values for write_object: scalars, empty and non-empty objects and arrays,
\* and one level of nesting
WriteObjectArgs ==
  LET leaves == {Null, Bool(TRUE), Num(1), Str(<<"a">>), Obj(<<>>), Arr(<<>>)}
  IN leaves
     \cup {Obj(<<Entry("k", v)>>) : v \in leaves}
     \cup {Arr(<<v>>) : v \in leaves}
     \cup {Obj(<<Entry("k", Num(1)), Entry("m", Obj(<<Entry("n", Null)>>))>>),
           Arr(<<Arr(<<Num(1)>>), Obj(<<Entry("n", Null)>>)>>)}

WriteObjectCalls ==
  {[fn |-> "write_object", val |-> v, indent |-> n] :
     v \in WriteObjectArgs, n \in {0, BASE_INDENT_SIZE}}

\* two levels compared with <=
LeCalls == {[fn |-> "le", a |-> a, b |-> b] : a \in LogLevels, b \in LogLevels}

InitCalls ==
  /\ \/ call \in WriteResCalls
     \/ call \in StatusCodeCalls
     \/ call \in IsMultilineStringCalls
     \/ call \in ParseCalls
     \/ call \in WriteObjectCalls
     \/ call \in LeCalls
  /\ ret = None
  /\ output_config = IdleConfig /\ input = <<>> /\ line_no = 0 /\ out = <<>>
  /\ errs = <<>> /\ steps = <<>> /\ pc = "idle"
  /\ log = EmptyLog /\ writer = <<>> /\ needs_divider = FALSE /\ at = 0
  /\ long_pc = "idle"

WriteResCall ==
  /\ call.fn = "write_res"
  /\ ~ret.some
  /\ ret' = Some(write_res(call.sec, Some(call.res_map)))
  /\ UNCHANGED call
  /\ UNCHANGED runVars
  /\ UNCHANGED longVars

WriteResStatusCodeCall ==
  /\ call.fn = "write_res_status_code"
  /\ ~ret.some
  /\ ret' = Some(write_res_status_code("res", call.optional_code, call.option_http_version))
  /\ UNCHANGED call
  /\ UNCHANGED runVars
  /\ UNCHANGED longVars

IsMultilineStringCall ==
  /\ call.fn = "is_multiline_string"
  /\ ~ret.some
  /\ ret' = Some(is_multiline_string(call.v))
  /\ UNCHANGED call
  /\ UNCHANGED runVars
  /\ UNCHANGED longVars

\* as_string, then parse on the name or on its lower case
ParseCall ==
  /\ call.fn = "parse"
  /\ ~ret.some
  /\ ret' = Some(parse(IF call.lower_case THEN to_ascii_lowercase(as_string(call.level))
                                          ELSE as_string(call.level)))
  /\ UNCHANGED call
  /\ UNCHANGED runVars
  /\ UNCHANGED longVars

WriteObjectCall ==
  /\ call.fn = "write_object"
  /\ ~ret.some
  /\ ret' = Some(write_object("objs", call.val, call.indent))
  /\ UNCHANGED call
  /\ UNCHANGED runVars
  /\ UNCHANGED longVars

LeCall ==
  /\ call.fn = "le"
  /\ ~ret.some
  /\ ret' = Some(le(call.a, call.b))
  /\ UNCHANGED call
  /\ UNCHANGED runVars
  /\ UNCHANGED longVars

NextCalls ==
  \/ WriteResCall
  \/ WriteResStatusCodeCall
  \/ IsMultilineStringCall
  \/ ParseCall
  \/ WriteObjectCall
  \/ LeCall

SpecCalls == InitCalls /\ [][NextCalls]_vars

\* ------------------------------------------------------------------------
\* Properties of write_bunyan_output (specification Spec)
\* ------------------------------------------------------------------------
CustomFormats == {"long", "short", "simple"}

\* what the i-th handled line added to the writer
Chunk(i) == SubSeq(out, (IF i = 1 THEN 0 ELSE steps[i - 1].mark) + 1, steps[i].mark)

\* the lines handled so far
Handled == SubSeq(input, 1, line_no)

\* a line that does not decode: not JSON, or not a record for the custom formats
FailsToDecode(line) ==
  \/ ~ParsesAsValue(line)
  \/ output_config.format.name \in CustomFormats /\ ~ParsesAsBunyanLine(line)

\* the empty line
EmptyText == Text(0, BlankBody)

\* c is one output line that carries exactly the text of `line`
IsEchoOf(c, line) ==
  /\ c # <<>>
  /\ c[Len(c)].f = "nl"
  /\ IF line = EmptyText THEN Len(c) = 1
     ELSE /\ Len(c) = 2
          /\ c[1].f \in {"text", "pretty"}
          /\ c[1].text = line

\* C1: without strict and debug, a line that fails to decode is written to
\* the sink as one line, character for character the input line, leading
\* whitespace included, at the position of the input line.
C1_UndecodableLineEchoedVerbatim ==
  (~output_config.is_strict /\ ~output_config.is_debug) =>
    \A i \in 1..Len(steps) : FailsToDecode(input[i]) => IsEchoOf(Chunk(i), input[i])

\* C2: in strict mode, whatever the format, a line that cannot be decoded
\* (an empty or whitespace-only line included) adds nothing to the sink.
C2_StrictDropsUndecodableLine ==
  output_config.is_strict =>
    \A i \in 1..Len(steps) : FailsToDecode(input[i]) => Chunk(i) = <<>>

\* C3: every input line is handled exactly once, in order, and the run then
\* ends normally: no line makes the run abort before the next line is
\* handled.
C3_EveryLineHandledThenDone ==
  /\ pc # "panicked"
  /\ Len(steps) = line_no
  /\ (pc = "done" => line_no = Len(input))

\* a handled line that decodes as a record below the configured threshold
Suppressed(line) ==
  /\ output_config.format.name \in CustomFormats
  /\ output_config.level.some
  /\ ParsesAsBunyanLine(trim_start(line))
  /\ line.body.level < output_config.level.v

NotSuppressed(line) == ~Suppressed(line)

\* C4: with a threshold L in a custom format, a decoded record is rendered
\* only if its level is at least L; a record below L adds no output, and the
\* writer holds exactly what the run writes for the input without the
\* records below L.
C4_LevelThreshold ==
  (output_config.format.name \in CustomFormats /\ output_config.level.some) =>
    /\ \A i \in 1..Len(steps) :
         /\ steps[i].write_log => input[i].body.level >= output_config.level.v
         /\ Suppressed(input[i]) => Chunk(i) = <<>>
    /\ out = sink_of(SelectSeq(Handled, NotSuppressed), output_config)

\* a record below the threshold was handled, and a later line wrote output
C4_Witness ==
  \E i, j \in 1..Len(steps) :
    i < j /\ Suppressed(input[i]) /\ steps[j].write_log /\ Chunk(j) # <<>>

\* the level check of the custom formats passes for the line
LevelPasses(line) ==
  output_config.level.some => output_config.level.v <= line.body.level

\* a line that reaches the decision of the custom formats as a record
IsCandidate(line) ==
  /\ Branch(line, output_config) = "custom"
  /\ ParsesAsBunyanLine(trim_start(line))

\* C5: in a custom format the condition filter is called at most once per
\* line, and only for a line that decoded as a record and passed the level
\* check; without a filter every record that passes the level check is
\* rendered.
C5_FilterCalledOnceAfterLevel ==
  \A i \in 1..Len(steps) :
    /\ steps[i].filter_calls <= 1
    /\ steps[i].filter_calls = 1 =>
         /\ output_config.condition_filter.some
         /\ IsCandidate(input[i])
         /\ LevelPasses(input[i])
    /\ (~output_config.condition_filter.some /\ IsCandidate(input[i])
          /\ LevelPasses(input[i])) => steps[i].write_log

\* with a filter and a threshold: one record reached the filter, another was
\* stopped by the threshold
C5_Witness ==
  /\ output_config.condition_filter.some
  /\ output_config.level.some
  /\ \E i, j \in 1..Len(steps) :
       /\ steps[i].filter_calls = 1
       /\ IsCandidate(input[j]) /\ ~LevelPasses(input[j]) /\ steps[j].filter_calls = 0

\* C6: the writer holds what a run with is_debug flipped writes for the same
\* lines: is_debug changes stderr only.
C6_DebugDoesNotChangeSink ==
  out = sink_of(Handled, [output_config EXCEPT !.is_debug = ~output_config.is_debug])

\* a strict debug run: an undecodable line got a diagnostic on stderr and
\* nothing in the sink
C6_Witness ==
  /\ output_config.is_debug
  /\ output_config.is_strict
  /\ errs # <<>>
  /\ \E i \in 1..Len(steps) : FailsToDecode(input[i]) /\ Chunk(i) = <<>>

\* the line is a JSON object that lacks one of the REQUIRED_FIELDS
LacksRequiredField(line) ==
  /\ ParsesAsMap(line)
  /\ \E k \in {REQUIRED_FIELDS[i] : i \in 1..Len(REQUIRED_FIELDS)} : k \notin line.body.fields

\* C14: in Inspect format a line that is a JSON object is rendered by the
\* inspect renderer when it has all six REQUIRED_FIELDS; when one is missing
\* it is written as one line of compact JSON, and nothing about it goes to
\* stderr and no raw echo is written, whatever is_strict and is_debug are.
C14_InspectFallsBackToCompactJson ==
  output_config.format.name = "inspect" =>
    \A i \in 1..Len(steps) :
      ParsesAsMap(input[i]) =>
        /\ Len(Chunk(i)) = 2
        /\ Chunk(i)[2].f = "nl"
        /\ Chunk(i)[1].text = trim_start(input[i])
        /\ Chunk(i)[1].f = (IF LacksRequiredField(input[i]) THEN "compact" ELSE "record")
        /\ Chunk(i)[1].sec = (IF LacksRequiredField(input[i]) THEN "json" ELSE "inspect")
        /\ \A e \in 1..Len(errs) : errs[e].line_no # i

\* a strict debug run in Inspect format handled an object without "v" and
\* an object with all the required fields
C14_Witness ==
  /\ output_config.format.name = "inspect"
  /\ output_config.is_strict
  /\ output_config.is_debug
  /\ \E i, j \in 1..Len(steps) :
       /\ LacksRequiredField(input[i])
       /\ ParsesAsMap(input[j]) /\ ~LacksRequiredField(input[j])

\* ------------------------------------------------------------------------
\* Properties of write_long_format (specification SpecLong)
\* ------------------------------------------------------------------------
SectionNames == {"req", "client_req", "res", "client_res", "objs", "err", "multi"}

\* position of a section in the order req, client_req, res, client_res,
\* object-valued extras, err, multiline extras
SectionRank(sec) ==
  CASE sec = "req" -> 1 [] sec = "client_req" -> 2 [] sec = "res" -> 3
    [] sec = "client_res" -> 4 [] sec = "objs" -> 5 [] sec = "err" -> 6
    [] sec = "multi" -> 7

IsLineBreak(tok) == tok.f = "nl"

\* for each line of the writer, the routine that ended it: a section, the
\* header, or "divider" for a divider line between sections
LineSecs ==
  LET nls == SelectSeq(writer, IsLineBreak)
  IN [k \in 1..Len(nls) |-> nls[k].sec]

\* C7: once the record is rendered, every divider between sections has a
\* line of an earlier section before it and a line of a later section after
\* it: no divider leads the sections and none trails them.
C7_NoLeadingOrTrailingDivider ==
  long_pc = "done" =>
    LET ls == LineSecs
    IN \A k \in 1..Len(ls) :
         ls[k] = "divider" =>
           /\ \E h \in 1..(k - 1) : ls[h] \in SectionNames
           /\ \E h \in (k + 1)..Len(ls) : ls[h] \in SectionNames

\* C8: a section that renders no line never puts a second divider in front
\* of the next section, and between the output of two consecutive sections
\* that wrote something there is exactly one divider line.
C8_OneDividerBetweenSections ==
  LET ls == LineSecs
  IN /\ \A k \in 1..(Len(ls) - 1) : ls[k] = "divider" => ls[k + 1] # "divider"
     /\ \A i, j \in 1..Len(ls) :
          ( /\ i < j
            /\ ls[i] \in SectionNames
            /\ ls[j] \in SectionNames
            /\ ls[i] # ls[j]
            /\ \A h \in (i + 1)..(j - 1) : ls[h] = "divider" )
          => Cardinality({h \in (i + 1)..(j - 1) : ls[h] = "divider"}) = 1

\* req wrote its line, res and client_res are present and render nothing,
\* err wrote its stack: the empty sections lie between two that wrote
C8_Witness ==
  /\ long_pc = "done"
  /\ log.req.some
  /\ log.client_req = None
  /\ log.res = Some(<<>>)
  /\ log.client_res = Some(<<>>)
  /\ log.err.some /\ MapHas(log.err.v, "stack")
  /\ \E k \in 1..Len(LineSecs) : LineSecs[k] = "divider"

\* the first line break of the writer
FirstNL == CHOOSE i \in 1..Len(writer) :
             writer[i].f = "nl" /\ \A h \in 1..(i - 1) : writer[h].f # "nl"

\* the fragment belongs to the header line
IsHeaderSec(sec) ==
  sec \in {"header", "inline.req_id", "inline.other", "inline.req", "inline.client_req",
           "inline.res", "inline.client_res", "inline.err", "inline.close"}

\* C9: the header line comes first, and after it the sections appear in the
\* order req, client_req, res, client_res, object-valued extras, err,
\* multiline extras: no line of a later section precedes one of an earlier.
C9_HeaderThenSectionsInOrder ==
  writer # <<>> =>
    LET ls == LineSecs
        first == FirstNL
    IN /\ \A i \in 1..Len(writer) : IsHeaderSec(writer[i].sec) <=> i <= first
       /\ \A i, j \in 1..Len(ls) :
            (i < j /\ ls[i] \in SectionNames /\ ls[j] \in SectionNames)
              => SectionRank(ls[i]) <= SectionRank(ls[j])

\* a rendered record with lines of client_req, of res and of a later section
C9_Witness ==
  /\ long_pc = "done"
  /\ \E k \in 1..Len(LineSecs) : LineSecs[k] = "client_req"
  /\ \E k \in 1..Len(LineSecs) : LineSecs[k] = "res"
  /\ \E k \in 1..Len(LineSecs) : LineSecs[k] = "multi"

\* the inline items of the header line, in the order written
IsItem(tok) == tok.f \in {"item_raw", "item_quoted", "item_json"}
Items == SelectSeq(writer, IsItem)

InlineRank(sec) ==
  CASE sec = "inline.req_id" -> 0 [] sec = "inline.other" -> 1 [] sec = "inline.req" -> 2
    [] sec = "inline.client_req" -> 3 [] sec = "inline.res" -> 4
    [] sec = "inline.client_res" -> 5 [] sec = "inline.err" -> 6

\* the keys of the eligible entries of `other`, in insertion order
EligibleOtherKeys ==
  LET Keep(e) == is_string_value_param(e.v)
      es == SelectSeq(log.other, Keep)
  IN [i \in 1..Len(es) |-> <<es[i].k>>]

IsOtherItem(tok) == IsItem(tok) /\ tok.sec = "inline.other"

\* C10: once the header is written, a req_id that is present and a string
\* or a number is the first inline item, req_id=<value>; the eligible
\* entries of `other` follow in insertion order; the items of the
\* sub-objects follow in the order req, client_req, res, client_res, err.
C10_ReqIdFirstThenOtherThenSubObjects ==
  at >= 1 =>
    /\ (log.req_id.some /\ (is_string(log.req_id.v) \/ is_number(log.req_id.v)))
         => /\ Items # <<>>
            /\ Items[1].sec = "inline.req_id"
            /\ Items[1].key = <<"req_id">>
            /\ Items[1].val = log.req_id.v
    /\ LET items == Items
       IN \A i, j \in 1..Len(items) :
            i < j => InlineRank(items[i].sec) <= InlineRank(items[j].sec)
    /\ LET os == SelectSeq(writer, IsOtherItem)
       IN [i \in 1..Len(os) |-> os[i].key] = EligibleOtherKeys


\* the fragments of the inline-parameter suffix, in the order written
IsInline(tok) == IsHeaderSec(tok.sec) /\ tok.sec # "header"
InlinePart == SelectSeq(writer, IsInline)

\* C11: once the header is written, the inline-parameter suffix is empty when
\* no item was emitted; otherwise it is " (" once, right before the first
\* item, ", " before each later item, and ")" once, after the last item.
C11_ParenthesesWellFormed ==
  at >= 1 =>
    LET p == InlinePart
        items == Items
    IN IF items = <<>> THEN p = <<>>
       ELSE /\ Len(p) = 2 * Len(items) + 1
            /\ \A i \in 1..Len(items) :
                 /\ p[2 * i - 1].f = "lit"
                 /\ p[2 * i - 1].key = (IF i = 1 THEN <<" (">> ELSE <<", ">>)
                 /\ p[2 * i] = items[i]
            /\ p[Len(p)].f = "lit"
            /\ p[Len(p)].key = <<")">>

\* no req_id and no eligible entry of `other`: the parenthesis is opened by
\* the first item of a sub-object, and a second item follows
C11_Witness ==
  /\ at >= 1
  /\ ~optional_req_id(log).some
  /\ EligibleOtherKeys = <<>>
  /\ Len(Items) >= 2
  /\ Items[1].sec = "inline.req"


\* the inline item written for the entry e of the sub-object sub, if any
HasInlineItem(sub, e) ==
  \E i \in 1..Len(writer) :
    /\ IsItem(writer[i])
    /\ writer[i].sec = InlineSec(sub)
    /\ writer[i].key = <<sub, e.k>>
    /\ writer[i].val = e.v

\* C19: once the header is written, no sub-object has an inline item for its
\* key trailer or trailers, whatever the value, and every other key of the
\* sub-object's extra set has its item exactly when its value is null or a
\* boolean.
C19_TrailersNeverInline ==
  at >= 1 =>
    \A sub \in SubObjects :
      log[sub].some =>
        \A i \in 1..Len(log[sub].v) :
          LET e == log[sub].v[i]
          IN IF e.k \in {"trailer", "trailers"} THEN ~HasInlineItem(sub, e)
             ELSE e.k \in ExtraOf(sub) =>
                    (HasInlineItem(sub, e) <=> (is_null(e.v) \/ is_boolean(e.v)))

\* the renderers that wrote the entry under key k of `other`
RenderersOf(k) ==
  {r \in {"inline.other", "objs", "multi"} :
     \E i \in 1..Len(writer) :
       /\ writer[i].sec = r
       /\ writer[i].key = <<k>>
       /\ (IsItem(writer[i]) \/ writer[i].f = "key")}

\* the renderer the shape of the value calls for
RendererFor(v) ==
  IF is_multiline_string(v) THEN "multi"
  ELSE IF is_array(v) \/ is_object_with_keys(v) THEN "objs"
       ELSE "inline.other"

\* C20: once the record is rendered, every entry of `other` was written by
\* exactly one of the inline-parameter renderer, the object-valued extras
\* section and the multiline block renderer, the one its shape calls for;
\* exactly one of the three filters accepts its value.
C20_OtherEntriesPartitioned ==
  long_pc = "done" =>
    \A i \in 1..Len(log.other) :
      LET e == log.other[i]
      IN /\ RenderersOf(e.k) = {RendererFor(e.v)}
         /\ Cardinality({f \in {"inline", "objs", "multi"} :
                           \/ f = "inline" /\ is_string_value_param(e.v)
                           \/ f = "objs" /\ is_object_value_param(e.v)
                           \/ f = "multi" /\ is_multiline_string(e.v)}) = 1

\* a rendered record whose `other` holds a multiline string and an object
\* with keys
C20_Witness ==
  /\ long_pc = "done"
  /\ \E i, j \in 1..Len(log.other) :
       is_multiline_string(log.other[i].v) /\ is_object_with_keys(log.other[j].v)

\* ------------------------------------------------------------------------
\* Properties of the routines called on their own (specification SpecCalls)
\* ------------------------------------------------------------------------
\* the map without the entry under key
MapWithout(map, key) ==
  LET Keep(e) == e.k # key
  IN SelectSeq(map, Keep)

\* the map with the entry under key `from` moved, in place, under key `to`
MapRenamed(map, from, to) ==
  [i \in 1..Len(map) |-> IF map[i].k = from THEN Entry(to, map[i].v) ELSE map[i]]

\* what the value of `headers` looks like when it is rendered
HeadersFragments(sec, res_map) ==
  LET headers == MapGet(res_map, "headers").v
      w == IF is_string(headers) THEN TextLines(sec, Lines(headers.s))
           ELSE write_headers(sec, headers).w
  IN {w[i] : i \in {j \in 1..Len(w) : w[j].f \in {"key", "raw"}}}

\* C12: write_res on a map with both header and headers writes what it
\* writes for the map without headers, and no fragment of headers; on a map
\* with headers alone it writes what it writes for the same value under
\* header.
C12_HeaderShadowsHeaders ==
  (call.fn = "write_res" /\ ret.some) =>
    LET m == call.res_map
    IN /\ (MapHas(m, "header") /\ MapHas(m, "headers")) =>
            /\ ret.v = write_res(call.sec, Some(MapWithout(m, "headers")))
            /\ \A i \in 1..Len(ret.v.w) : ret.v.w[i] \notin HeadersFragments(call.sec, m)
       /\ (~MapHas(m, "header") /\ MapHas(m, "headers")) =>
            /\ ret.v = write_res(call.sec, Some(MapRenamed(m, "headers", "header")))
            /\ \E i \in 1..Len(ret.v.w) : ret.v.w[i] \in HeadersFragments(call.sec, m)

\* both keys hold an object, headers comes first in the map, and the call
\* returned with the one line of header
C12_Witness ==
  /\ call.fn = "write_res"
  /\ ret.some
  /\ call.res_map = ResMap(Some(Obj(<<Entry("x-a", Str(<<"1">>))>>)),
                           Some(Obj(<<Entry("x-b", Str(<<"2">>))>>)), None, TRUE)
  /\ ret.v.n = 1

\* the status code value the claim lets through, None for the others
AcceptedStatusCode(optional_code) ==
  IF ~optional_code.some THEN None
  ELSE IF is_number(optional_code.v)
       THEN IF optional_code.v.int /\ optional_code.v.n \in 0..U16_MAX
            THEN Some(optional_code.v.n) ELSE None
       ELSE IF is_string(optional_code.v) THEN ParseU16(optional_code.v.s) ELSE None

\* C13: write_res_status_code writes one line carrying the code itself and
\* returns 1 when statusCode is an integer number in 0..65535 or a string
\* that parses as u16; for every other statusCode, an absent one included,
\* it writes nothing and returns 0.
C13_StatusLineIffU16 ==
  (call.fn = "write_res_status_code" /\ ret.some) =>
    LET code == AcceptedStatusCode(call.optional_code)
        w == ret.v.w
    IN IF code.some
       THEN /\ ret.v.n = 1
            /\ Cardinality({i \in 1..Len(w) : w[i].f = "nl"}) = 1
            /\ w[Len(w)].f = "nl"
            /\ Cardinality({i \in 1..Len(w) : w[i].f = "status"}) = 1
            /\ \A i \in 1..Len(w) : w[i].f = "status" => w[i].val = Num(code.v)
       ELSE ret.v.w = <<>> /\ ret.v.n = 0

\* a number that is 200 modulo 2^16 returned without a status line
C13_Witness ==
  /\ call.fn = "write_res_status_code"
  /\ ret.some
  /\ call.optional_code = Some(Num(U16_MAX + 1 + 200))
  /\ ret.v.w = <<>>


\* C15: is_multiline_string(v) is true exactly when v is a string that
\* contains a line break or has more than 50 characters; a string of 50
\* characters without a line break is not multiline, nor is any value that
\* is not a string.
C15_MultilineIffNewlineOrOver50Chars ==
  (call.fn = "is_multiline_string" /\ ret.some) =>
    ret.v = (is_string(call.v) /\ (Contains(call.v.s, "\n") \/ Len(call.v.s) > LONG_LINE_SIZE))


\* C16: for every level l, named or OTHER(n), LogLevel::parse applied to
\* l.as_string(), as written or in lower case, returns Ok(l).
C16_LevelNameRoundTrip ==
  (call.fn = "parse" /\ ret.some) => ret.v = Ok(call.level)

\* OTHER(10), whose code is the number of TRACE, came back from its
\* lower-case name
C16_Witness ==
  /\ call.fn = "parse"
  /\ ret.some
  /\ call.level = Other(10)
  /\ call.lower_case
  /\ ret.v.ok


\* C17: for every value and indent, the number write_object returns is the
\* number of line breaks it wrote: the line that opens a non-empty object or
\* array and each entry line, at every depth.
C17_WriteObjectCountsItsLines ==
  (call.fn = "write_object" /\ ret.some) =>
    ret.v.n = Cardinality({i \in 1..Len(ret.v.w) : ret.v.w[i].f = "nl"})

\* C18: at any indent write_object writes an empty object as "{}" on the
\* current line, without a line break, and returns 0; an empty array
\* likewise as "[]".
C18_EmptyObjectInline ==
  (call.fn = "write_object" /\ ret.some) =>
    /\ call.val = Obj(<<>>) => ret.v = Res(<<Lit("objs", "{}")>>, 0)
    /\ call.val = Arr(<<>>) => ret.v = Res(<<Lit("objs", "[]")>>, 0)


\* C21: for any two levels a and b, named or OTHER(n), a <= b under the
\* comparison of LogLevel exactly when a.as_u16() <= b.as_u16().
C21_LevelOrderIsNumeric ==
  (call.fn = "le" /\ ret.some) => ret.v = (as_u16(call.a) <= as_u16(call.b))

====
